---- MODULE Spec2Model ----
(***************************************************************************)
(* Model of copads/randomize.py: the Randomizer facade (randrange, random, *)
(* choice) over the two integer core generators MersenneTwister and LCG.   *)
(*                                                                         *)
(* Python integers are unbounded, and the generators work on values up to  *)
(* 2^64 and beyond, so an integer is modelled as a sign and a magnitude,   *)
(* the magnitude being a little-endian sequence of 8-bit limbs without     *)
(* leading zero limbs.  All arithmetic of the source (sum, product,        *)
(* remainder, bitwise and, xor, shifts, power) is computed on that         *)
(* representation with Python's semantics.                                 *)
(***************************************************************************)
EXTENDS Integers, Sequences, FiniteSets, TLC

(***************************************************************************)
(* Magnitudes: natural numbers as sequences of limbs, least significant    *)
(* limb first.                                                             *)
(***************************************************************************)
LimbBits == 2 * 2 * 2
Base == 2 ^ LimbBits

RECURSIVE MNorm(_)
MNorm(m) ==
    IF m = <<>> THEN m
    ELSE IF m[Len(m)] = 0 THEN MNorm(SubSeq(m, 1, Len(m) - 1))
    ELSE m

MLimb(m, i) == IF i >= 1 /\ i <= Len(m) THEN m[i] ELSE 0

\* the sequence with the elements of the function f on 1 .. n, and no
\* leading zero limb
MSeq(f) == MNorm(f \o <<>>)

MaxOf(a, b) == IF a >= b THEN a ELSE b
MinOf(a, b) == IF a <= b THEN a ELSE b

RECURSIVE MFromNat(_)
MFromNat(n) == IF n = 0 THEN <<>> ELSE <<n % Base>> \o MFromNat(n \div Base)

RECURSIVE MCmpAt(_, _, _)
MCmpAt(a, b, i) ==
    IF i = 0 THEN 0
    ELSE IF a[i] > b[i] THEN 1
    ELSE IF a[i] < b[i] THEN -1
    ELSE MCmpAt(a, b, i - 1)

MCmp(a, b) ==
    IF Len(a) > Len(b) THEN 1
    ELSE IF Len(a) < Len(b) THEN -1
    ELSE MCmpAt(a, b, Len(a))

RECURSIVE MAddFrom(_, _, _, _)
MAddFrom(a, b, i, c) ==
    IF i > Len(a) /\ i > Len(b)
    THEN (IF c = 0 THEN <<>> ELSE <<c>>)
    ELSE LET s == MLimb(a, i) + MLimb(b, i) + c
         IN  <<s % Base>> \o MAddFrom(a, b, i + 1, s \div Base)

MAdd(a, b) == MAddFrom(a, b, 1, 0)

\* a - b for a >= b
RECURSIVE MSubFrom(_, _, _, _)
MSubFrom(a, b, i, br) ==
    IF i > Len(a) THEN <<>>
    ELSE LET d == a[i] - MLimb(b, i) - br
         IN  <<(d + Base) % Base>> \o MSubFrom(a, b, i + 1, IF d < 0 THEN 1 ELSE 0)

MSub(a, b) == MNorm(MSubFrom(a, b, 1, 0))

RECURSIVE MMulLimbFrom(_, _, _, _)
MMulLimbFrom(a, d, i, c) ==
    IF i > Len(a)
    THEN (IF c = 0 THEN <<>> ELSE <<c>>)
    ELSE LET p == a[i] * d + c
         IN  <<p % Base>> \o MMulLimbFrom(a, d, i + 1, p \div Base)

RECURSIVE MMulFrom(_, _, _)
MMulFrom(a, b, j) ==
    IF j > Len(b) THEN <<>>
    ELSE MAdd(MMulLimbFrom(a, b[j], 1, 0), <<0>> \o MMulFrom(a, b, j + 1))

MMul(a, b) == MNorm(MMulFrom(a, b, 1))

\* a ** n, by squaring
RECURSIVE MPow(_, _)
MPow(a, n) ==
    IF n = 0 THEN <<1>>
    ELSE LET h == MPow(a, n \div 2)
         IN  IF n % 2 = 0 THEN MMul(h, h) ELSE MMul(MMul(h, h), a)

\* bitwise operations on two limbs, from the tables for 4-bit halves
RECURSIVE BitsXor(_, _, _)
BitsXor(x, y, n) ==
    IF n = 0 THEN 0 ELSE ((x + y) % 2) + 2 * BitsXor(x \div 2, y \div 2, n - 1)

RECURSIVE BitsAnd(_, _, _)
BitsAnd(x, y, n) ==
    IF n = 0 THEN 0 ELSE ((x % 2) * (y % 2)) + 2 * BitsAnd(x \div 2, y \div 2, n - 1)

XorNib == [x \in 0 .. 15 |-> [y \in 0 .. 15 |-> BitsXor(x, y, 4)]]
AndNib == [x \in 0 .. 15 |-> [y \in 0 .. 15 |-> BitsAnd(x, y, 4)]]

LimbXor(x, y) == XorNib[x \div 16][y \div 16] * 16 + XorNib[x % 16][y % 16]
LimbAnd(x, y) == AndNib[x \div 16][y \div 16] * 16 + AndNib[x % 16][y % 16]

MXor(a, b) ==
    MSeq([i \in 1 .. MaxOf(Len(a), Len(b)) |->
              LimbXor(MLimb(a, i), MLimb(b, i))])

MAnd(a, b) ==
    MSeq([i \in 1 .. MinOf(Len(a), Len(b)) |-> LimbAnd(a[i], b[i])])

MOr(a, b) ==
    MSeq([i \in 1 .. MaxOf(Len(a), Len(b)) |->
              MLimb(a, i) + MLimb(b, i) - LimbAnd(MLimb(a, i), MLimb(b, i))])

\* a AND NOT b
MAndNot(a, b) ==
    MSeq([i \in 1 .. Len(a) |-> a[i] - LimbAnd(a[i], MLimb(b, i))])

MShr(a, k) ==
    LET q == k \div LimbBits
        r == k % LimbBits
    IN  IF Len(a) <= q THEN <<>>
        ELSE MSeq([i \in 1 .. Len(a) - q |->
                 (a[i + q] \div (2 ^ r))
                 + (MLimb(a, i + q + 1) % (2 ^ r)) * (2 ^ (LimbBits - r))])

MShl(a, k) ==
    LET q == k \div LimbBits
        r == k % LimbBits
    IN  MSeq([i \in 1 .. Len(a) + q + 1 |->
                 IF i <= q THEN 0
                 ELSE ((MLimb(a, i - q) * (2 ^ r)) % Base)
                      + (MLimb(a, i - q - 1) \div (2 ^ (LimbBits - r)))])

\* a mod d for a one-limb d > 0, limb by limb from the top
RECURSIVE MModSmall(_, _, _, _)
MModSmall(a, d, i, r) ==
    IF i = 0 THEN r ELSE MModSmall(a, d, i - 1, (r * Base + a[i]) % d)

\* r mod m for r < 2^(k+1) * m, where ms[j + 1] = m * 2^j: conditional
\* subtraction of m * 2^k, ..., m * 2, m
RECURSIVE MModReduce(_, _, _)
MModReduce(r, ms, k) ==
    IF k < 0 THEN r
    ELSE MModReduce(IF MCmp(r, ms[k + 1]) >= 0 THEN MSub(r, ms[k + 1]) ELSE r,
                    ms, k - 1)

\* long division in base Base: bring down limb i of a, reduce, go on
RECURSIVE MModLimbs(_, _, _, _)
MModLimbs(a, ms, i, r) ==
    IF i = 0 THEN r
    ELSE LET r1 == MModReduce(MNorm(<<a[i]>> \o r), ms, LimbBits - 1)
         IN  IF Len(r1) >= 0 THEN MModLimbs(a, ms, i - 1, r1) ELSE r1

\* a mod m for m > 0
MMod(a, m) ==
    IF Len(m) = 1 THEN MFromNat(MModSmall(a, m[1], Len(a), 0))
    ELSE IF Len(a) < Len(m) THEN a
    ELSE LET top == Len(a) - Len(m) + 1
             ms == <<m, MShl(m, 1), MShl(m, 2), MShl(m, 3),
                     MShl(m, 4), MShl(m, 5), MShl(m, 6), MShl(m, 7)>>
         IN  MModLimbs(a, ms, top, SubSeq(a, top + 1, Len(a)))

\* magnitude of a decimal numeral given by its digits, most significant first
RECURSIVE MDecFrom(_, _, _)
MDecFrom(ds, i, acc) ==
    IF i > Len(ds) THEN acc
    ELSE LET acc1 == MAdd(MMul(acc, <<10>>), MFromNat(ds[i]))
         IN  IF Len(acc1) >= 0 THEN MDecFrom(ds, i + 1, acc1) ELSE acc1

MDec(ds) == MDecFrom(ds, 1, <<>>)

\* magnitude of a hexadecimal numeral given by its digits (a = 10, ..., f = 15)
RECURSIVE MHexFrom(_, _, _)
MHexFrom(ds, i, acc) ==
    IF i > Len(ds) THEN acc
    ELSE LET acc1 == MAdd(MShl(acc, 4), MFromNat(ds[i]))
         IN  IF Len(acc1) >= 0 THEN MHexFrom(ds, i + 1, acc1) ELSE acc1

MHex(ds) == MHexFrom(ds, 1, <<>>)

(***************************************************************************)
(* Python integers: [neg, mag].  Zero has neg = FALSE.                     *)
(***************************************************************************)
MkInt(neg, mag) == [neg |-> neg /\ mag # <<>>, mag |-> mag]
Nat2Int(n) == MkInt(FALSE, MFromNat(n))
Dec(ds) == MkInt(FALSE, MDec(ds))
Hex(ds) == MkInt(FALSE, MHex(ds))
INeg(x) == MkInt(~x.neg, x.mag)
IAbs(x) == MkInt(FALSE, x.mag)
IZero == [neg |-> FALSE, mag |-> <<>>]
IOne == [neg |-> FALSE, mag |-> <<1>>]

IAdd(x, y) ==
    IF x.neg = y.neg THEN MkInt(x.neg, MAdd(x.mag, y.mag))
    ELSE IF MCmp(x.mag, y.mag) >= 0 THEN MkInt(x.neg, MSub(x.mag, y.mag))
    ELSE MkInt(y.neg, MSub(y.mag, x.mag))

ISub(x, y) == IAdd(x, INeg(y))
IMul(x, y) == MkInt(x.neg # y.neg, MMul(x.mag, y.mag))
IPow(x, n) == MkInt(x.neg /\ n % 2 = 1, MPow(x.mag, n))

\* x < y, x <= y
ILt(x, y) ==
    IF x.neg # y.neg THEN x.neg
    ELSE IF x.neg THEN MCmp(x.mag, y.mag) > 0
    ELSE MCmp(x.mag, y.mag) < 0
ILe(x, y) == x = y \/ ILt(x, y)

\* Python's x % m for m # 0: the result has the sign of m
IMod(x, m) ==
    LET r == MMod(x.mag, m.mag)
    IN  IF r = <<>> THEN IZero
        ELSE IF x.neg = m.neg THEN MkInt(m.neg, r)
        ELSE MkInt(m.neg, MSub(m.mag, r))

\* Python's bitwise operators on the infinite two's complement: for x < 0,
\* ~x = -x - 1 = |x| - 1 is non-negative
MCompl(x) == MSub(x.mag, <<1>>)
IFromCompl(m) == MkInt(TRUE, MAdd(m, <<1>>))

IAnd(x, y) ==
    IF ~x.neg /\ ~y.neg THEN MkInt(FALSE, MAnd(x.mag, y.mag))
    ELSE IF x.neg /\ ~y.neg THEN MkInt(FALSE, MAndNot(y.mag, MCompl(x)))
    ELSE IF ~x.neg /\ y.neg THEN MkInt(FALSE, MAndNot(x.mag, MCompl(y)))
    ELSE IFromCompl(MOr(MCompl(x), MCompl(y)))

IXor(x, y) ==
    IF ~x.neg /\ ~y.neg THEN MkInt(FALSE, MXor(x.mag, y.mag))
    ELSE IF x.neg /\ ~y.neg THEN IFromCompl(MXor(MCompl(x), y.mag))
    ELSE IF ~x.neg /\ y.neg THEN IFromCompl(MXor(x.mag, MCompl(y)))
    ELSE MkInt(FALSE, MXor(MCompl(x), MCompl(y)))

IShr(x, k) ==
    IF x.neg THEN IFromCompl(MShr(MCompl(x), k)) ELSE MkInt(FALSE, MShr(x.mag, k))

IShl(x, k) == MkInt(x.neg, MShl(x.mag, k))

(***************************************************************************)
(* class MersenneTwister(Randomizer)                                       *)
(*                                                                         *)
(* An object is a record of its attributes.  block is a Python list, kept  *)
(* as a sequence: the list element block[i] is Blk(block, i).              *)
(***************************************************************************)
Blk(block, i) == block[i + 1]
BlkSet(block, i, v) == [block EXCEPT ![i + 1] = v]

\* the literals of the class, limb by limb (least significant first);
\* 2636928640 = 0x9d2c5680 and 4022730752 = 0xefc60000
Lit_0xFFFFFFFF == [neg |-> FALSE, mag |-> <<\hff, \hff, \hff, \hff>>]
Lit_0x7fffffff == [neg |-> FALSE, mag |-> <<\hff, \hff, \hff, \h7f>>]
Lit_0x80000000 == [neg |-> FALSE, mag |-> <<\h00, \h00, \h00, \h80>>]
Lit_0x9908b0df == [neg |-> FALSE, mag |-> <<\hdf, \hb0, \h08, \h99>>]
Lit_1812433253 == [neg |-> FALSE, mag |-> <<\h65, \h89, \h07, \h6c>>]
Lit_2636928640 == [neg |-> FALSE, mag |-> <<\h80, \h56, \h2c, \h9d>>]
Lit_4022730752 == [neg |-> FALSE, mag |-> <<\h00, \h00, \hc6, \hef>>]
ITwo == [neg |-> FALSE, mag |-> <<2>>]

\* _int32: int(0xFFFFFFFF & x)
MT_int32(x) == IAnd(Lit_0xFFFFFFFF, x)

\* the body of the seeding loop of __init__ for one i
MT_init_step(block, i) ==
    LET t == IXor(Blk(block, i - 1), IShr(Blk(block, i - 1), 30))
    IN  BlkSet(block, i, MT_int32(IAdd(IMul(Lit_1812433253, t), Nat2Int(i))))

\* for i in range(lo, hi) of the seeding loop (the range is halved to keep
\* the evaluation shallow; the steps run in increasing i)
RECURSIVE MT_init_loop(_, _, _)
MT_init_loop(block, lo, hi) ==
    IF lo >= hi THEN block
    ELSE IF hi = lo + 1 THEN MT_init_step(block, lo)
    ELSE LET mid == (lo + hi) \div 2
             b1 == MT_init_loop(block, lo, mid)
         IN  IF Len(b1) >= 0 THEN MT_init_loop(b1, mid, hi) ELSE b1

\* MersenneTwister.__init__ once self.seed is set
MT_init(seed) ==
    LET block0 == <<seed>> \o [i \in 1 .. 623 |-> IZero]
    IN  [cls |-> "MersenneTwister", seed |-> seed, index |-> 624,
         block |-> MT_init_loop(block0, 1, 624)]

\* a loop body whose y is block[i] + t, with neither the mask of the upper
\* bit nor _int32
MT_twist_step_unmasked(block, i) ==
    LET t == IAnd(Blk(block, (i + 1) % 624), Lit_0x7fffffff)
        y == IAdd(Blk(block, i), t)
        b == IXor(Blk(block, (i + 397) % 624), IShr(y, 1))
    IN  BlkSet(block, i,
               IF IMod(y, ITwo) # IZero
               THEN IXor(b, Lit_0x9908b0df)
               ELSE b)

\* the body of the loop of _twist for one i
MT_twist_step(block, i) ==
    LET t == IAnd(Blk(block, (i + 1) % 624), Lit_0x7fffffff)
        y == MT_int32(IAdd(IAnd(Blk(block, i), Lit_0x80000000), t))
        b == IXor(Blk(block, (i + 397) % 624), IShr(y, 1))
    IN  BlkSet(block, i,
               IF IMod(y, ITwo) # IZero
               THEN IXor(b, Lit_0x9908b0df)
               ELSE b)

RECURSIVE MT_twist_loop(_, _, _)
MT_twist_loop(block, lo, hi) ==
    IF lo >= hi THEN block
    ELSE IF hi = lo + 1 THEN MT_twist_step(block, lo)
    ELSE LET mid == (lo + hi) \div 2
             b1 == MT_twist_loop(block, lo, mid)
         IN  IF Len(b1) >= 0 THEN MT_twist_loop(b1, mid, hi) ELSE b1

\* MersenneTwister._twist
MT_twist(self) ==
    [self EXCEPT !.block = MT_twist_loop(self.block, 0, 624), !.index = 0]

\* a tempering whose last shift is by 17 bits instead of 18
MT_temper_shift17(y0) ==
    LET y1 == IXor(y0, IShr(y0, 11))
        y2 == IXor(y1, IAnd(IShl(y1, 7), Lit_2636928640))
        y3 == IXor(y2, IAnd(IShl(y2, 15), Lit_4022730752))
    IN  IXor(y3, IShr(y3, 17))

\* the tempering of _random: y after the four shift-and-xor statements
MT_temper(y0) ==
    LET y1 == IXor(y0, IShr(y0, 11))
        y2 == IXor(y1, IAnd(IShl(y1, 7), Lit_2636928640))
        y3 == IXor(y2, IAnd(IShl(y2, 15), Lit_4022730752))
    IN  IXor(y3, IShr(y3, 18))

\* a _random that twists one draw early, at index 623
MT_random_twist_at_623(self) ==
    LET s1 == IF self.index >= 623 THEN MT_twist(self) ELSE self
        y == MT_temper(Blk(s1.block, s1.index))
    IN  [self |-> [s1 EXCEPT !.index = s1.index + 1], ret |-> MT_int32(y)]

\* MersenneTwister._random: the object after the call and the value returned
MT_random(self) ==
    LET s1 == IF self.index >= 624 THEN MT_twist(self) ELSE self
        y == MT_temper(Blk(s1.block, s1.index))
    IN  [self |-> [s1 EXCEPT !.index = s1.index + 1], ret |-> MT_int32(y)]

\* The statements of MersenneTwister._random one by one, as a thread runs
\* them when other threads use the same object.
\* a first statement that twists only when index > 624
MT_random_test_above_624(self) ==
    IF self.index > 624 THEN MT_twist(self) ELSE self

\* if self.index >= 624: self._twist()
MT_random_test(self) ==
    IF self.index >= 624 THEN MT_twist(self) ELSE self

\* y = self.block[self.index]: index is never negative, and an index
\* beyond the end of the list raises IndexError
MT_random_read(self) ==
    IF self.index < Len(self.block)
    THEN [outcome |-> "return", y |-> Blk(self.block, self.index)]
    ELSE [outcome |-> "IndexError", y |-> IZero]

\* self.index = self.index + 1
MT_random_incr(self) == [self EXCEPT !.index = @ + 1]

\* the four shift-and-xor statements on the local y and the return statement
MT_random_return(y) == MT_int32(MT_temper(y))

(***************************************************************************)
(* class LCG(Randomizer)                                                   *)
(***************************************************************************)
\* the (multiplier, increment, modulus) assigned by the if and elif branches
\* of LCG.__init__ for the argument generator; <<>> when none of them is taken
LCG_elif(generator) ==
    IF generator = "nr" THEN
        <<Nat2Int(1664525), Nat2Int(1013904223), IPow(ITwo, 32)>>
    ELSE IF generator = "borlandc" THEN
        <<Nat2Int(22695477), IOne, IPow(ITwo, 32)>>
    ELSE IF generator = "pascal" THEN
        <<Nat2Int(134775813), IOne, IPow(ITwo, 32)>>
    ELSE IF generator = "visualc" THEN
        <<Nat2Int(214013), Nat2Int(2531011), IPow(ITwo, 32)>>
    ELSE IF generator = "vb6" THEN
        <<Nat2Int(1140671485), Nat2Int(12820163), IPow(ITwo, 24)>>
    ELSE IF generator = "nag" THEN
        <<IPow(Nat2Int(13), 13), IZero, IPow(ITwo, 59)>>
    ELSE IF generator = "newlib" THEN
        <<Dec(<<6, 3, 6, 4, 1, 3, 6, 2, 2, 3, 8, 4, 6, 7, 9, 3, 0, 0, 5>>), IOne,
          IPow(ITwo, 64)>>
    ELSE IF generator = "java" THEN
        <<Dec(<<2, 5, 2, 1, 4, 9, 0, 3, 9, 1, 7>>), Nat2Int(11), IPow(ITwo, 48)>>
    ELSE IF generator = "lehmer" THEN
        <<Nat2Int(16807), IZero, ISub(IPow(ITwo, 31), IOne)>>
    ELSE IF generator = "ansic" THEN
        <<Nat2Int(1103515245), Nat2Int(12345), IPow(ITwo, 31)>>
    ELSE <<>>

\* the else branch of the chain
LCG_else ==
    <<Dec(<<6, 3, 6, 4, 1, 3, 6, 2, 2, 3, 8, 4, 6, 7, 9, 3, 0, 0, 5>>),
      Dec(<<1, 4, 4, 2, 6, 9, 5, 0, 4, 0, 8, 8, 8, 9, 6, 3, 4, 0, 7>>),
      IPow(ITwo, 64)>>

\* a chain with a branch of its own for 'mmix', whose else branch assigns
\* the newlib parameters
LCG_params_else_newlib(generator) ==
    IF LCG_elif(generator) # <<>> THEN LCG_elif(generator)
    ELSE IF generator = "mmix" THEN LCG_else
    ELSE LCG_elif("newlib")

\* the whole if/elif/else chain
LCG_params(generator) ==
    IF LCG_elif(generator) # <<>> THEN LCG_elif(generator) ELSE LCG_else

\* a constructor that stores the increment as the multiplier and the
\* multiplier as the increment
LCG_init_swapped(seed, generator) ==
    LET p == LCG_params(generator)
    IN  [cls |-> "LCG", seed |-> seed,
         multiplier |-> p[2], increment |-> p[1], modulus |-> p[3]]

\* LCG.__init__ once self.seed is set
LCG_init(seed, generator) ==
    LET p == LCG_params(generator)
    IN  [cls |-> "LCG", seed |-> seed,
         multiplier |-> p[1], increment |-> p[2], modulus |-> p[3]]

\* a step that leaves the increment out
LCG_random_no_increment(self) ==
    LET t == IMul(self.multiplier, self.seed)
        s1 == [self EXCEPT !.seed = IMod(t, self.modulus)]
    IN  [self |-> s1, ret |-> s1.seed]

\* a step whose remainder has the sign of the dividend, as in C
LCG_random_truncating(self) ==
    LET t == IAdd(IMul(self.multiplier, self.seed), self.increment)
        s1 == [self EXCEPT !.seed = MkInt(t.neg, MMod(t.mag, self.modulus.mag))]
    IN  [self |-> s1, ret |-> s1.seed]

\* LCG._random: the object after the call and the value returned
LCG_random(self) ==
    LET t == IAdd(IMul(self.multiplier, self.seed), self.increment)
        s1 == [self EXCEPT !.seed = IMod(t, self.modulus)]
    IN  [self |-> s1, ret |-> s1.seed]

(***************************************************************************)
(* class Randomizer: the methods the two generators inherit.  A call       *)
(* yields the object after the call, how the call ended ("return" or the   *)
(* name of the exception it raised) and the value returned.                *)
(*                                                                         *)
(* Each of randrange, random and choice begins by calling self._random();  *)
(* the operators below take the result r of that first call, so that the   *)
(* next-state relation computes it once for all of them.                   *)
(*                                                                         *)
(* random() divides two floats; its value is kept as the exact fraction    *)
(* ret / den of the two draws reduced modulo 1.                            *)
(***************************************************************************)
\* a constructor that ignores its seed argument
Randomizer_seed_ignored(seed, e) == e

\* Randomizer.__init__ and the first lines of the subclasses' __init__:
\* self.seed for the argument seed, e being what randgen.random()*1000000
\* truncates to
Randomizer_seed(seed, e) == IF seed.t = "None" THEN e ELSE seed.v

\* self._random() for the class of self
Core_random(self) ==
    IF self.cls = "MersenneTwister" THEN MT_random(self) ELSE LCG_random(self)

\* a randrange that reduces modulo stop + 1
Randomizer_randrange_inclusive(r, start, stop) ==
    LET x == IAdd(r.ret, start)
    IN  IF IAdd(stop, IOne) = IZero
        THEN [self |-> r.self, outcome |-> "ZeroDivisionError",
              ret |-> IZero, den |-> IOne]
        ELSE [self |-> r.self, outcome |-> "return",
              ret |-> IMod(x, IAdd(stop, IOne)), den |-> IOne]

\* Randomizer.randrange(start, stop), r being the result of self._random()
Randomizer_randrange(r, start, stop) ==
    LET x == IAdd(r.ret, start)
    IN  IF stop = IZero
        THEN [self |-> r.self, outcome |-> "ZeroDivisionError",
              ret |-> IZero, den |-> IOne]
        ELSE [self |-> r.self, outcome |-> "return",
              ret |-> IMod(x, stop), den |-> IOne]

\* a random() that divides the second draw by the first
Randomizer_random_swapped(a, b) ==
    IF a.ret = IZero
    THEN [self |-> b.self, outcome |-> "ZeroDivisionError",
          ret |-> IZero, den |-> IOne]
    ELSE [self |-> b.self, outcome |-> "return",
          ret |-> MkInt(FALSE, MMod(b.ret.mag, a.ret.mag)),
          den |-> IAbs(a.ret)]

\* Randomizer.random(), a being the result of the first self._random(), the
\* left operand of the division, and b of the second
Randomizer_random(a, b) ==
    IF b.ret = IZero
    THEN [self |-> b.self, outcome |-> "ZeroDivisionError",
          ret |-> IZero, den |-> IOne]
    ELSE [self |-> b.self, outcome |-> "return",
          ret |-> MkInt(FALSE, MMod(a.ret.mag, b.ret.mag)),
          den |-> IAbs(b.ret)]

\* Randomizer.choice(sequence), r being the result of the self._random() of
\* its call of randrange: the last statement reads the name seq, which is
\* bound nowhere
Randomizer_choice(r, sequence) ==
    LET c == Randomizer_randrange(r, IZero, ISub(Nat2Int(Len(sequence)), IOne))
    IN  IF c.outcome # "return" THEN c
        ELSE [self |-> c.self, outcome |-> "NameError", ret |-> IZero, den |-> IOne]

(***************************************************************************)
(* The program: generator objects, and the calls made on them.             *)
(***************************************************************************)
VARIABLES
    obj,      \* obj[i]: the attributes of generator object i
    arg,      \* arg[i]: the arguments object i was constructed with
    draws,    \* draws[i]: how many times _random has run on object i
    out,      \* out[i]: what the latest _random on object i returned
    last,     \* the latest call: method, object, arguments, outcome, value
    shared    \* the _random calls that threads sharing object 1 are in

vars == <<obj, arg, draws, out, last, shared>>

\* bounds of the model
MaxDraws == 3
MaxPairDraws == 2

\* the seeds the callers pass
NoneSeed == [t |-> "None"]
IntSeed(v) == [t |-> "int", v |-> v]
Seed_5489 == Nat2Int(5489)
Seed_wide == IAdd(IPow(ITwo, 64), Nat2Int(5))
Seed_neg == INeg(Nat2Int(7))
\* the seed from which borlandc draws 0 first: 22695477 * s + 1 = 0 mod 2^32
Seed_tozero == Dec(<<3, 6, 0, 4, 6, 7, 1, 4, 5, 9>>)
\* what int(randgen.random()*1000000) may be: 0 .. 999999
EntropyValues == {IOne, Nat2Int(999999)}

GeneratorNames ==
    {"ansic", "borlandc", "java", "lehmer", "mmix", "newlib", "nag", "nr",
     "pascal", "vb6", "visualc", "minstd"}

MTArgs ==
    {[cls |-> "MersenneTwister", seed |-> IntSeed(v)] :
        v \in {Seed_5489, Seed_wide, Seed_neg}}
LCGArgs ==
    {[cls |-> "LCG", seed |-> sd, generator |-> g] :
        sd \in {NoneSeed} \cup {IntSeed(v) : v \in {IZero, Seed_tozero, Seed_wide, Seed_neg}},
        g \in GeneratorNames}
CtorArgs == MTArgs \cup LCGArgs

\* the arguments of randrange and choice
RangeArgs ==
    {<<IZero, IOne>>, <<IZero, Nat2Int(7)>>, <<Nat2Int(3), Nat2Int(5)>>,
     <<IZero, IZero>>, <<Nat2Int(2), INeg(Nat2Int(3))>>}
Sequences == {<<>>, <<"a">>, <<"a", "b">>}

\* the constructor call: MersenneTwister(seed) or LCG(seed, generator)
New(a, e) ==
    IF a.cls = "MersenneTwister"
    THEN MT_init(Randomizer_seed(a.seed, e))
    ELSE LCG_init(Randomizer_seed(a.seed, e), a.generator)

\* no thread shares an object
NoSharing == [threads |-> {}]

NoCall(i) ==
    [op |-> "__init__", self |-> i, start |-> IZero, stop |-> IZero,
     sequence |-> <<>>, outcome |-> "return", ret |-> IZero, den |-> IOne]

InitWith(args) ==
    /\ arg \in args
    /\ \E e \in [DOMAIN arg -> EntropyValues] :
           obj = [i \in DOMAIN arg |-> New(arg[i], e[i])]
    /\ draws = [i \in DOMAIN arg |-> 0]
    /\ out = [i \in DOMAIN arg |-> IZero]
    /\ last = NoCall(1)
    /\ shared = NoSharing

Init == InitWith([{1} -> CtorArgs])

\* a call of _random on object i, r being its result
RawDraw(i, r) ==
    /\ obj' = [obj EXCEPT ![i] = r.self]
    /\ draws' = [draws EXCEPT ![i] = @ + 1]
    /\ out' = [out EXCEPT ![i] = r.ret]
    /\ last' = [NoCall(i) EXCEPT !.op = "_random", !.ret = r.ret]
    /\ UNCHANGED <<arg, shared>>

\* a call of randrange(start, stop) on object i
Randrange(i, r) ==
    \E a \in RangeArgs :
        LET c == Randomizer_randrange(r, a[1], a[2])
        IN  /\ obj' = [obj EXCEPT ![i] = c.self]
            /\ draws' = [draws EXCEPT ![i] = @ + 1]
            /\ out' = [out EXCEPT ![i] = r.ret]
            /\ last' = [NoCall(i) EXCEPT !.op = "randrange", !.start = a[1],
                                         !.stop = a[2], !.outcome = c.outcome,
                                         !.ret = c.ret]
            /\ UNCHANGED <<arg, shared>>

\* a call of random() on object i
Random(i, r, limit) ==
    /\ draws[i] + 2 <= limit
    /\ \E b \in {Core_random(r.self)} :
        LET c == Randomizer_random(r, b)
        IN  /\ obj' = [obj EXCEPT ![i] = c.self]
            /\ draws' = [draws EXCEPT ![i] = @ + 2]
            /\ out' = [out EXCEPT ![i] = b.ret]
            /\ last' = [NoCall(i) EXCEPT !.op = "random", !.outcome = c.outcome,
                                         !.ret = c.ret, !.den = c.den]
            /\ UNCHANGED <<arg, shared>>

\* a call of choice(sequence) on object i
Choice(i, r) ==
    \E sq \in Sequences :
        LET c == Randomizer_choice(r, sq)
        IN  /\ obj' = [obj EXCEPT ![i] = c.self]
            /\ draws' = [draws EXCEPT ![i] = @ + 1]
            /\ out' = [out EXCEPT ![i] = r.ret]
            /\ last' = [NoCall(i) EXCEPT !.op = "choice", !.sequence = sq,
                                         !.outcome = c.outcome, !.ret = c.ret]
            /\ UNCHANGED <<arg, shared>>

\* Every method starts with self._random(): its result r is computed once
\* for the four calls that can be made next on object i.
Next ==
    \E i \in DOMAIN obj :
        /\ draws[i] < MaxDraws
        /\ \E r \in {Core_random(obj[i])} :
              \/ RawDraw(i, r)
              \/ Randrange(i, r)
              \/ Random(i, r, MaxDraws)
              \/ Choice(i, r)

Spec == Init /\ [][Next]_vars

(***************************************************************************)
(* Two generator objects, constructed independently, each drawn from with  *)
(* _random in any interleaving.                                            *)
(***************************************************************************)
PairMTArgs ==
    {[cls |-> "MersenneTwister", seed |-> IntSeed(v)] : v \in {Seed_5489, Seed_neg}}
PairLCGArgs ==
    {[cls |-> "LCG", seed |-> sd, generator |-> g] :
        sd \in {NoneSeed, IntSeed(Seed_tozero), IntSeed(Seed_neg)},
        g \in GeneratorNames}

\* the second object is constructed like the first, or with generator
\* 'mmix' in place of the first one's generator, or with another seed
PairOf(a, b) ==
    \/ b = a
    \/ /\ a.cls = "LCG"
       /\ b = [a EXCEPT !.generator = "mmix"]
    \/ /\ a.seed = IntSeed(Seed_neg)
       /\ b.cls = a.cls
       /\ b = [a EXCEPT !.seed = b.seed]
       /\ a.cls = "LCG" => b.generator = "mmix"

PairArgs ==
    {p \in [{1, 2} -> PairMTArgs \cup PairLCGArgs] : PairOf(p[1], p[2])}

InitPair == InitWith(PairArgs)

NextPair ==
    \E i \in DOMAIN obj :
        /\ draws[i] < MaxPairDraws
        /\ \E r \in {Core_random(obj[i])} : RawDraw(i, r)

SpecPair == InitPair /\ [][NextPair]_vars


(***************************************************************************)
(* One MersenneTwister object drawn from with _random past its second      *)
(* twist.                                                                  *)
(***************************************************************************)
MaxCursorDraws == 626

InitCursor == InitWith([{1} -> MTArgs])

NextCursor ==
    \E i \in DOMAIN obj :
        /\ draws[i] < MaxCursorDraws
        /\ \E r \in {Core_random(obj[i])} : RawDraw(i, r)

SpecCursor == InitCursor /\ [][NextCursor]_vars

(***************************************************************************)
(* hypothesis.test(statistic, distribution, confidence).  Probabilities    *)
(* are counted in thousandths, so that 1.0 is Thousandths; statistics and  *)
(* critical values are integers.                                           *)
(***************************************************************************)
Thousandths == 1000

\* distribution.inverseCDF(probability): a tuple whose first element is the
\* value below which the distribution holds that probability; here for a
\* distribution that spreads evenly around its location
inverseCDF(distribution, probability) ==
    <<distribution.location
        + (distribution.spread * (probability - Thousandths \div 2)) \div 100,
      probability>>

\* a test whose lower comparison is <= where the code has <
test_lower_inclusive(statistic, distribution, confidence) ==
    LET data1 == inverseCDF(distribution, Thousandths - confidence)[1]
        data0 == IF data1 <= statistic THEN FALSE ELSE TRUE
        data3 == inverseCDF(distribution, confidence)[1]
        data4 == IF statistic < data3 THEN FALSE ELSE TRUE
    IN  <<data0, data1, statistic, data3, data4>>

\* hypothesis.test: the list data it returns
test(statistic, distribution, confidence) ==
    LET data1 == inverseCDF(distribution, Thousandths - confidence)[1]
        data0 == IF data1 < statistic THEN FALSE ELSE TRUE
        data3 == inverseCDF(distribution, confidence)[1]
        data4 == IF statistic < data3 THEN FALSE ELSE TRUE
    IN  <<data0, data1, statistic, data3, data4>>

\* the arguments the callers pass
Statistics == -12 .. 12
Distributions ==
    {[location |-> 0, spread |-> 2], [location |-> 0, spread |-> 1],
     [location |-> 3, spread |-> 2]}
Confidences == {950, 975, 990, 995, 500, 50}

\* no generator object; no call of test made yet
InitTest ==
    /\ obj = <<>> /\ arg = <<>> /\ draws = <<>> /\ out = <<>>
    /\ last = [op |-> "import"]
    /\ shared = NoSharing

\* a call of test(statistic, distribution, confidence)
TestCall ==
    \E st \in Statistics, d \in Distributions, c \in Confidences :
        /\ last' = [op |-> "test", statistic |-> st, distribution |-> d,
                    confidence |-> c, outcome |-> "return",
                    data |-> test(st, d, c)]
        /\ UNCHANGED <<obj, arg, draws, out, shared>>

SpecTest == InitTest /\ [][TestCall]_vars

(***************************************************************************)
(* One MersenneTwister object shared by two threads that call _random on   *)
(* it.  The object may have been drawn from by a single owner before.      *)
(* Either every caller wraps the call in one lock of the object, or none   *)
(* does.  A thread can be interrupted between the statements of _random,   *)
(* not inside _twist nor inside the update of index.                       *)
(***************************************************************************)
MaxSharedDraws == 2

Threads == {1, 2}

\* how many draws the single owner made before the object was shared
OwnerDraws == {0, 623}

\* n successive calls of _random, starting from the result r of a call
RECURSIVE MT_draws(_, _)
MT_draws(r, n) ==
    IF n = 0 THEN r
    ELSE IF n = 1 THEN MT_random(r.self)
    ELSE LET h == MT_draws(r, n \div 2)
         IN  IF h.self.index >= 0 THEN MT_draws(h, n - n \div 2) ELSE h

\* the lock the callers put around a call of _random: 0 when free
LockFree == 0
CanEnter(t) == shared.locking => shared.lock = LockFree
Acquire(t) == IF shared.locking THEN t ELSE shared.lock
Release(t) == IF shared.locking THEN LockFree ELSE shared.lock

InitShared ==
    /\ arg = <<[cls |-> "MersenneTwister", seed |-> IntSeed(Seed_5489)]>>
    /\ \E n \in OwnerDraws, locking \in BOOLEAN :
         \E r \in {MT_draws([self |-> New(arg[1], IZero), ret |-> IZero], n)} :
           /\ obj = <<r.self>>
           /\ draws = <<n>>
           /\ out = <<r.ret>>
           /\ shared = [threads |-> Threads, locking |-> locking,
                        lock |-> LockFree, owner |-> n,
                        pc |-> [t \in Threads |-> "idle"],
                        y |-> [t \in Threads |-> IZero],
                        at |-> [t \in Threads |-> 0],
                        calls |-> [t \in Threads |-> 0],
                        rets |-> <<>>]
    /\ last = NoCall(1)

\* thread t enters _random and runs its first statement
SharedTest(t) ==
    /\ shared.pc[t] = "idle"
    /\ shared.calls[t] < MaxSharedDraws
    /\ CanEnter(t)
    /\ obj' = [obj EXCEPT ![1] = MT_random_test(obj[1])]
    /\ shared' = [shared EXCEPT !.pc[t] = "read", !.lock = Acquire(t),
                                !.calls[t] = @ + 1]
    /\ UNCHANGED <<arg, draws, out, last>>

\* thread t reads block[index] into its y, or leaves _random by IndexError
SharedRead(t) ==
    /\ shared.pc[t] = "read"
    /\ LET r == MT_random_read(obj[1])
       IN  IF r.outcome = "return"
           THEN /\ shared' = [shared EXCEPT !.pc[t] = "incr", !.y[t] = r.y,
                                            !.at[t] = obj[1].index]
                /\ UNCHANGED last
           ELSE /\ shared' = [shared EXCEPT !.pc[t] = "failed",
                                            !.at[t] = obj[1].index,
                                            !.lock = Release(t)]
                /\ last' = [NoCall(1) EXCEPT !.op = "_random",
                                             !.outcome = r.outcome]
    /\ UNCHANGED <<obj, arg, draws, out>>

\* thread t tempers its y, adds 1 to index and returns
SharedReturn(t) ==
    /\ shared.pc[t] = "incr"
    /\ LET v == MT_random_return(shared.y[t])
       IN  /\ obj' = [obj EXCEPT ![1] = MT_random_incr(obj[1])]
           /\ draws' = [draws EXCEPT ![1] = @ + 1]
           /\ out' = [out EXCEPT ![1] = v]
           /\ last' = [NoCall(1) EXCEPT !.op = "_random", !.ret = v]
           /\ shared' = [shared EXCEPT
                           !.pc[t] = "idle", !.lock = Release(t),
                           !.rets = Append(@, [thread |-> t, ret |-> v,
                                               at |-> shared.at[t]])]
    /\ UNCHANGED arg

NextShared ==
    \E t \in shared.threads :
        \/ SharedTest(t)
        \/ SharedRead(t)
        \/ SharedReturn(t)

SpecShared == InitShared /\ [][NextShared]_vars

(***************************************************************************)
(* Properties                                                              *)
(***************************************************************************)
Explicit(i) == arg[i].seed.t = "int"
IsLCG(i) == arg[i].cls = "LCG"
IsMT(i) == arg[i].cls = "MersenneTwister"
RecognizedNames ==
    {"ansic", "borlandc", "java", "lehmer", "mmix", "newlib", "nag", "nr",
     "pascal", "vb6", "visualc"}

\* C1: two objects constructed with the same class, the same generator
\* name and the same explicitly given seed, on which _random has run the
\* same number of times, have returned the same value on their latest draw
\* and hold the same attributes (so every later draw agrees as well).
C1_Determinism ==
    \A i, j \in DOMAIN obj :
        (arg[i] = arg[j] /\ Explicit(i) /\ draws[i] = draws[j])
            => (out[i] = out[j] /\ obj[i] = obj[j])

C1_Witness ==
    /\ DOMAIN obj = {1, 2}
    /\ arg[1] = arg[2] /\ Explicit(1) /\ IsMT(1)
    /\ draws[1] = MaxPairDraws /\ draws[2] = MaxPairDraws
    /\ out[1] = out[2] /\ out[1] # IZero

\* the first outputs of MT19937 seeded with 5489, as published
MT19937_Published ==
    <<Dec(<<3, 4, 9, 9, 2, 1, 1, 6, 1, 2>>),
      Dec(<<5, 8, 1, 8, 6, 9, 3, 0, 2>>),
      Dec(<<3, 8, 9, 0, 3, 4, 6, 7, 3, 4>>),
      Dec(<<3, 5, 8, 6, 3, 3, 4, 5, 8, 5>>),
      Dec(<<5, 4, 5, 4, 0, 4, 2, 0, 4>>)>>

\* C2: the k-th _random of MersenneTwister(5489) returns the k-th published
\* output of MT19937 (3499211612, 581869302, 3890346734, ...), and the
\* constants of the twist and of the tempering are 0x9908B0DF, 0x9D2C5680
\* and 0xEFC60000.
C2_ReferenceVector ==
    \A i \in DOMAIN obj :
        (IsMT(i) /\ arg[i].seed = IntSeed(Seed_5489) /\ draws[i] >= 1
                 /\ draws[i] <= Len(MT19937_Published))
            => /\ out[i] = MT19937_Published[draws[i]]
               /\ obj[i].index = draws[i]
               /\ Lit_0x9908b0df = Hex(<<9, 9, 0, 8, 11, 0, 13, 15>>)
               /\ Lit_2636928640 = Hex(<<9, 13, 2, 12, 5, 6, 8, 0>>)
               /\ Lit_4022730752 = Hex(<<14, 15, 12, 6, 0, 0, 0, 0>>)

C2_Witness ==
    \E i \in DOMAIN obj :
        /\ IsMT(i) /\ arg[i].seed = IntSeed(Seed_5489)
        /\ draws[i] = 3 /\ last.op = "_random"
        /\ out[i] = Dec(<<3, 8, 9, 0, 3, 4, 6, 7, 3, 4>>)

\* C3: a _random on an LCG object sets seed to
\* (multiplier * seed + increment) mod modulus, with the parameters of the
\* generator name the object was constructed with, and returns the new
\* seed; before the first draw seed is the seed argument; no call changes
\* multiplier, increment or modulus.
C3_LCGRecurrence ==
    [][\A i \in DOMAIN obj :
          IsLCG(i) =>
            /\ (draws[i] = 0 /\ Explicit(i)) => obj[i].seed = arg[i].seed.v
            /\ obj'[i].multiplier = obj[i].multiplier
            /\ obj'[i].increment = obj[i].increment
            /\ obj'[i].modulus = obj[i].modulus
            /\ (last'.op = "_random" /\ last'.self = i /\ draws'[i] = draws[i] + 1)
                 => LET p == LCG_params(arg[i].generator)
                        t == IAdd(IMul(p[1], obj[i].seed), p[2])
                    IN  /\ obj'[i].seed = IMod(t, p[3])
                        /\ last'.ret = obj'[i].seed
                        /\ out'[i] = obj'[i].seed
                        /\ last'.outcome = "return"]_vars

C3_Witness ==
    \E i \in DOMAIN obj :
        /\ IsLCG(i) /\ arg[i].generator = "java" /\ Explicit(i)
        /\ draws[i] = 2 /\ last.op = "_random" /\ last.self = i
        /\ obj[i].seed # arg[i].seed.v

\* the table of named profiles: multiplier, increment, modulus
ProfileTable(name) ==
    CASE name = "ansic" ->
        <<Dec(<<1, 1, 0, 3, 5, 1, 5, 2, 4, 5>>),
          Dec(<<1, 2, 3, 4, 5>>),
          Dec(<<2, 1, 4, 7, 4, 8, 3, 6, 4, 8>>)>>
      [] name = "borlandc" ->
        <<Dec(<<2, 2, 6, 9, 5, 4, 7, 7>>),
          Dec(<<1>>),
          Dec(<<4, 2, 9, 4, 9, 6, 7, 2, 9, 6>>)>>
      [] name = "java" ->
        <<Dec(<<2, 5, 2, 1, 4, 9, 0, 3, 9, 1, 7>>),
          Dec(<<1, 1>>),
          Dec(<<2, 8, 1, 4, 7, 4, 9, 7, 6, 7, 1, 0, 6, 5, 6>>)>>
      [] name = "lehmer" ->
        <<Dec(<<1, 6, 8, 0, 7>>),
          Dec(<<0>>),
          Dec(<<2, 1, 4, 7, 4, 8, 3, 6, 4, 7>>)>>
      [] name = "mmix" ->
        <<Dec(<<6, 3, 6, 4, 1, 3, 6, 2, 2, 3, 8, 4, 6, 7, 9, 3, 0, 0, 5>>),
          Dec(<<1, 4, 4, 2, 6, 9, 5, 0, 4, 0, 8, 8, 8, 9, 6, 3, 4, 0, 7>>),
          Dec(<<1, 8, 4, 4, 6, 7, 4, 4, 0, 7, 3, 7, 0, 9, 5, 5, 1, 6, 1, 6>>)>>
      [] name = "newlib" ->
        <<Dec(<<6, 3, 6, 4, 1, 3, 6, 2, 2, 3, 8, 4, 6, 7, 9, 3, 0, 0, 5>>),
          Dec(<<1>>),
          Dec(<<1, 8, 4, 4, 6, 7, 4, 4, 0, 7, 3, 7, 0, 9, 5, 5, 1, 6, 1, 6>>)>>
      [] name = "nag" ->
        <<Dec(<<3, 0, 2, 8, 7, 5, 1, 0, 6, 5, 9, 2, 2, 5, 3>>),
          Dec(<<0>>),
          Dec(<<5, 7, 6, 4, 6, 0, 7, 5, 2, 3, 0, 3, 4, 2, 3, 4, 8, 8>>)>>
      [] name = "nr" ->
        <<Dec(<<1, 6, 6, 4, 5, 2, 5>>),
          Dec(<<1, 0, 1, 3, 9, 0, 4, 2, 2, 3>>),
          Dec(<<4, 2, 9, 4, 9, 6, 7, 2, 9, 6>>)>>
      [] name = "pascal" ->
        <<Dec(<<1, 3, 4, 7, 7, 5, 8, 1, 3>>),
          Dec(<<1>>),
          Dec(<<4, 2, 9, 4, 9, 6, 7, 2, 9, 6>>)>>
      [] name = "vb6" ->
        <<Dec(<<1, 1, 4, 0, 6, 7, 1, 4, 8, 5>>),
          Dec(<<1, 2, 8, 2, 0, 1, 6, 3>>),
          Dec(<<1, 6, 7, 7, 7, 2, 1, 6>>)>>
      [] name = "visualc" ->
        <<Dec(<<2, 1, 4, 0, 1, 3>>),
          Dec(<<2, 5, 3, 1, 0, 1, 1>>),
          Dec(<<4, 2, 9, 4, 9, 6, 7, 2, 9, 6>>)>>

\* C4: an LCG object constructed with one of the eleven profile names has
\* the multiplier, increment and modulus the table gives for that name,
\* whatever was called on it since.
C4_ProfileTable ==
    \A i \in DOMAIN obj :
        (IsLCG(i) /\ arg[i].generator \in RecognizedNames)
            => <<obj[i].multiplier, obj[i].increment, obj[i].modulus>>
                   = ProfileTable(arg[i].generator)

C4_Witness ==
    \E i \in DOMAIN obj :
        /\ IsLCG(i) /\ arg[i].generator = "nag" /\ draws[i] >= 1
        /\ obj[i].multiplier = IPow(Nat2Int(13), 13)
        /\ obj[i].modulus = IPow(ITwo, 59)

\* C5: an LCG object constructed with a name that is none of the eleven
\* and one constructed with 'mmix' and the same seed have, after the same
\* number of draws, returned the same value and hold the same attributes;
\* the construction with the unknown name yields an object.
C5_FallbackToMmix ==
    \A i, j \in DOMAIN obj :
        (/\ IsLCG(i) /\ IsLCG(j)
         /\ arg[i].generator \notin RecognizedNames
         /\ arg[j].generator = "mmix"
         /\ arg[i].seed = arg[j].seed /\ Explicit(i)
         /\ draws[i] = draws[j])
            => /\ out[i] = out[j]
               /\ obj[i] = obj[j]
               /\ obj[i].cls = "LCG"

C5_Witness ==
    /\ DOMAIN obj = {1, 2}
    /\ IsLCG(1) /\ IsLCG(2)
    /\ arg[1].generator = "minstd" /\ arg[2].generator = "mmix"
    /\ arg[1].seed = arg[2].seed /\ Explicit(1)
    /\ draws[1] = MaxPairDraws /\ draws[2] = MaxPairDraws
    /\ out[1] = out[2] /\ out[1] # IZero

\* C6: once _random has run on an LCG object, whatever its seed argument
\* was, 0 <= seed < modulus, and the latest value _random returned is in
\* that range too.
C6_LCGRange ==
    \A i \in DOMAIN obj :
        (IsLCG(i) /\ draws[i] >= 1)
            => /\ ILe(IZero, obj[i].seed) /\ ILt(obj[i].seed, obj[i].modulus)
               /\ ILe(IZero, out[i]) /\ ILt(out[i], obj[i].modulus)

C6_Witness ==
    \E i \in DOMAIN obj :
        /\ IsLCG(i) /\ arg[i].seed = IntSeed(Seed_neg)
        /\ arg[i].generator = "lehmer"
        /\ draws[i] >= 1 /\ last.op = "_random"
        /\ ILt(IZero, obj[i].seed)

C8_RandrangeWithinBounds ==
    (/\ last.op = "randrange"
     /\ ILe(IZero, last.start) /\ ILt(last.start, last.stop))
        => /\ last.outcome = "return"
           /\ ILe(last.start, last.ret) /\ ILt(last.ret, last.stop)

\* C9: the value v = ret / den that random() returns satisfies 0 < v <= 1.
C9_RandomInUnitInterval ==
    (last.op = "random" /\ last.outcome = "return")
        => /\ ILt(IZero, last.ret)
           /\ ILe(last.ret, last.den)

\* the exceptions by which Python code reports an unusable argument
ArgumentErrors == {"ValueError", "TypeError", "IndexError"}

\* C10: choice on an empty sequence ends with an exception that reports
\* the argument as invalid; it returns no value.
C10_EmptyChoiceInvalidArgument ==
    (last.op = "choice" /\ last.sequence = <<>>)
        => last.outcome \in ArgumentErrors

\* C11: choice on a non-empty sequence returns, without raising, the
\* element at one of the indices of the sequence (last.ret being the index
\* chosen); choice([x]) returns x.
C11_ChoiceReturnsElement ==
    (last.op = "choice" /\ last.sequence # <<>>)
        => /\ last.outcome = "return"
           /\ \E k \in 1 .. Len(last.sequence) : last.ret = Nat2Int(k - 1)

\* C12: no generator object comes out of a constructor called with a
\* negative seed, and so nothing is ever drawn from one.
C12_NegativeSeedRejected ==
    \A i \in DOMAIN obj :
        (Explicit(i) /\ ILt(arg[i].seed.v, IZero))
            => /\ obj[i].cls \notin {"MersenneTwister", "LCG"}
               /\ draws[i] = 0

\* C13: randrange with stop <= 0 ends with an exception that reports the
\* argument as invalid; it returns no value.
C13_NonPositiveStopInvalidArgument ==
    (last.op = "randrange" /\ ILe(last.stop, IZero))
        => last.outcome \in ArgumentErrors

\* C15: no call changes the seed attribute of a generator object.
C15_SeedFixed ==
    [][\A i \in DOMAIN obj : obj'[i].seed = obj[i].seed]_vars

\* the words of a MersenneTwister block: 0 .. 2^32 - 1
IsWord32(x) == ILe(IZero, x) /\ ILe(x, Lit_0xFFFFFFFF)

\* C17: in every state of a MersenneTwister object constructed with a
\* non-negative seed, from the end of __init__ on, block has 624 elements and each lies in [0, 2^32 - 1].
C17_BlockWordsAlways32Bit ==
    \A i \in DOMAIN obj :
        (IsMT(i) /\ Explicit(i) /\ ILe(IZero, arg[i].seed.v))
                => /\ Len(obj[i].block) = 624
                   /\ \A k \in 1 .. 624 : IsWord32(obj[i].block[k])

\* C20: _random, randrange with stop > 0 and random() on an object
\* constructed with a non-negative seed always return a value; none ends
\* with an exception.
C20_DrawsAlwaysReturn ==
    (/\ last.op \in {"_random", "randrange", "random"}
     /\ last.op = "randrange" => ILt(IZero, last.stop)
     /\ Explicit(last.self) => ILe(IZero, arg[last.self].seed.v))
        => last.outcome = "return"

\* C14: once a twist has run on a MersenneTwister object, whatever its seed
\* was, each of the 624 elements of block lies in [0, 2^32 - 1], and so
\* does each value _random returns.
C14_WordsMaskedAfterTwist ==
    \A i \in DOMAIN obj :
        (IsMT(i) /\ draws[i] >= 1)
            => /\ IsWord32(out[i])
               /\ Len(obj[i].block) = 624
               /\ \A k \in 1 .. 624 : IsWord32(obj[i].block[k])

C14_Witness ==
    \E i \in DOMAIN obj :
        /\ IsMT(i) /\ arg[i].seed = IntSeed(Seed_wide)
        /\ draws[i] = 625 /\ obj[i].index = 1
        /\ ILt(IZero, out[i])

\* C18: index is 624 after __init__ and always in 0 .. 624; the 1st,
\* 625th, 1249th, ... _random finds index = 624, twists and consumes the
\* word at index 0; every other _random finds index < 624, leaves block
\* unchanged, consumes the word at index and adds 1 to index.
C18_CursorProtocol ==
    [][\A i \in DOMAIN obj :
          IsMT(i) =>
            /\ draws[i] = 0 => obj[i].index = 624
            /\ obj[i].index \in 0 .. 624
            /\ obj'[i].index \in 0 .. 624
            /\ draws'[i] = draws[i] + 1 =>
                 /\ IF draws[i] % 624 = 0
                    THEN /\ obj[i].index = 624
                         /\ obj'[i].block = MT_twist(obj[i]).block
                         /\ obj'[i].block # obj[i].block
                         /\ obj'[i].index = 1
                    ELSE /\ obj[i].index < 624
                         /\ obj'[i].block = obj[i].block
                         /\ obj'[i].index = obj[i].index + 1
                 /\ out'[i] = MT_int32(MT_temper(Blk(obj'[i].block,
                                                     obj'[i].index - 1)))]_vars

C18_Witness ==
    \E i \in DOMAIN obj :
        /\ IsMT(i) /\ arg[i].seed = IntSeed(Seed_5489)
        /\ draws[i] = 625 /\ obj[i].index = 1 /\ last.op = "_random"

C19_DrawConsumption ==
    [][\A i \in DOMAIN obj :
          last'.self = i =>
            LET r1 == Core_random(obj[i])
                r2 == Core_random(r1.self)
            IN  /\ last'.op = "_random" =>
                     /\ obj'[i] = r1.self /\ draws'[i] = draws[i] + 1
                     /\ last'.ret = r1.ret
                /\ last'.op = "randrange" =>
                     /\ obj'[i] = r1.self /\ draws'[i] = draws[i] + 1
                     /\ last'.stop # IZero =>
                          /\ last'.outcome = "return"
                          /\ last'.ret = IMod(IAdd(r1.ret, last'.start), last'.stop)
                /\ last'.op = "random" =>
                     /\ obj'[i] = r2.self /\ draws'[i] = draws[i] + 2
                     /\ last'.outcome = "return" =>
                          /\ last'.den = IAbs(r2.ret)
                          /\ last'.ret = MkInt(FALSE, MMod(r1.ret.mag, r2.ret.mag))]_vars

C19_Witness ==
    \E i \in DOMAIN obj :
        /\ last.op = "random" /\ last.self = i /\ last.outcome = "return"
        /\ draws[i] = 3 /\ IsLCG(i)
        /\ ILt(IZero, last.ret) /\ ILt(IOne, last.den)

\* the n-th output of MT19937 seeded with 5489, for the n of the model
MT19937_Output(n) ==
    CASE n = 1 -> Dec(<<3, 4, 9, 9, 2, 1, 1, 6, 1, 2>>)
      [] n = 2 -> Dec(<<5, 8, 1, 8, 6, 9, 3, 0, 2>>)
      [] n = 3 -> Dec(<<3, 8, 9, 0, 3, 4, 6, 7, 3, 4>>)
      [] n = 4 -> Dec(<<3, 5, 8, 6, 3, 3, 4, 5, 8, 5>>)
      [] n = 5 -> Dec(<<5, 4, 5, 4, 0, 4, 2, 0, 4>>)
      [] n = 6 -> Dec(<<4, 1, 6, 1, 2, 5, 5, 3, 9, 1>>)
      [] n = 624 -> Dec(<<4, 0, 2, 0, 3, 2, 5, 8, 8, 7>>)
      [] n = 625 -> Dec(<<4, 1, 7, 8, 8, 9, 3, 9, 1, 2>>)
      [] n = 626 -> Dec(<<6, 1, 0, 8, 1, 8, 2, 4, 1>>)
      [] n = 627 -> Dec(<<2, 7, 8, 7, 3, 9, 7, 2, 2, 4>>)
      [] n = 628 -> Dec(<<2, 7, 6, 2, 4, 4, 1, 3, 8, 0>>)
      [] n = 629 -> Dec(<<3, 4, 3, 7, 3, 9, 3, 6, 5, 7>>)

\* C21: when every call of _random on the shared MersenneTwister runs
\* under the one lock, in every interleaving of the two threads the values
\* returned are, in the order the lock was taken, the successive outputs of
\* the generator drawn from by a single owner, no call fails, index stays
\* in 0 .. 624 and at most one thread is inside _random.  (That without the
\* lock two calls can return the same word, or a call can read block at
\* index 624, is the state that C21_Witness describes.)
C21_LockedDrawsInOrder ==
    (shared.threads # {} /\ shared.locking) =>
        /\ obj[1].index \in 0 .. 624
        /\ \A k \in 1 .. Len(shared.rets) :
               shared.rets[k].ret = MT19937_Output(shared.owner + k)
        /\ \A t \in shared.threads : shared.pc[t] # "failed"
        /\ \A t, u \in shared.threads :
               (shared.pc[t] # "idle" /\ shared.pc[u] # "idle") => t = u

\* without the lock: two calls, one of each thread, have read the word at
\* the same index and returned the same value
C21_Witness ==
    /\ shared.threads # {} /\ ~shared.locking
    /\ \E j, k \in 1 .. Len(shared.rets) :
           /\ j < k
           /\ shared.rets[j].thread # shared.rets[k].thread
           /\ shared.rets[j].at = shared.rets[k].at
           /\ shared.rets[j].ret = shared.rets[k].ret
    /\ Len(shared.rets) = 2 /\ obj[1].index = 2

====
